---- MODULE Spec2Model ----
(***************************************************************************)
(* The OAuth2 PKCE token lifecycle of index.js: the /login, /callback,     *)
(* /refresh_token, /token and /logout handlers over a cookie-backed        *)
(* session (koa-session, autoCommit) and the external provider SDK.        *)
(*                                                                         *)
(* A handler that awaits the provider is split at the await: the entry     *)
(* action runs the code up to the call and parks the request (with the     *)
(* session it read from the cookie), the Ok / Fail action runs the rest    *)
(* and commits the session to the cookie.  Handlers without an await are   *)
(* one action.                                                             *)
(***************************************************************************)
EXTENDS Integers, Sequences, FiniteSets, Bags, TLC

\* ---------------------------------------------------------------- bounds
MaxVerifiers == 1     \* verifiers the SDK generates in one run
MaxLogins == 2        \* the same, in a run of one request at a time
MaxIssued == 2        \* token responses the provider issues in one run
MaxTicks == 1         \* clock steps
TickMs == 700         \* milliseconds per clock step

Sessions == {"A", "B"}

\* ------------------------------------------------------------ JS values
\* Strings that are trimmed are sequences of characters; "" and an unset
\* value are both the empty sequence (both falsy under ||).
Truthy(v) == v # <<>>

\* a || b
Or(a, b) == IF Truthy(a) THEN a ELSE b

RECURSIVE TrimLeft(_)
TrimLeft(s) == IF s # <<>> /\ Head(s) = " " THEN TrimLeft(Tail(s)) ELSE s

RECURSIVE TrimRight(_)
TrimRight(s) ==
    IF s # <<>> /\ s[Len(s)] = " " THEN TrimRight(SubSeq(s, 1, Len(s) - 1)) ELSE s

\* String.prototype.trim
Trim(s) == TrimRight(TrimLeft(s))

\* -------------------------------------------------------------- session
\* ctx.session.oauth when it was never set
NoOAuth ==
    [token_type |-> "", access_token |-> <<>>, refresh_token |-> <<>>,
     expires_in |-> 0, expire_at |-> 0]

\* a session without codeVerifier (0) and without oauth: a request with no
\* cookie, or after the cookie was removed
EmptySession == [codeVerifier |-> 0, oauth |-> NoOAuth]

\* the lifetime added in seconds instead of milliseconds
ExpireAtSeconds(t, expires_in) == t + expires_in

\* Date.now() + (Number(expires_in) || 0) * 1000
ExpireAt(t, expires_in) == t + expires_in * 1000

\* the object literal both handlers assign to ctx.session.oauth
OAuthRecord(oauthToken, t) ==
    [token_type |-> "pkce",
     access_token |-> oauthToken.access_token,
     refresh_token |-> oauthToken.refresh_token,
     expires_in |-> oauthToken.expires_in,
     expire_at |-> ExpireAt(t, oauthToken.expires_in)]

\* ------------------------------------------------------- configuration
\* process.env.COZE_PAT as the process may have been started with it
EnvPats == {<<>>, <<" ">>, <<" ", "e", " ">>}

\* config.websdk_pat as coze_oauth_config.json may give it
WebsdkPats == {<<>>, <<" ">>, <<"w">>}

\* config.pat as coze_oauth_config.json may give it
FilePats == {<<>>, <<"p">>}

\* (process.env.COZE_PAT || config.websdk_pat || config.pat || '').trim()
ResolvePat(e, c) == Trim(Or(Or(Or(e, c.websdk_pat), c.pat), <<>>))

\* ------------------------------------------------------------- requests
\* ctx.query.code of a /callback request: absent, or a code
Codes == {"", "c1"}

\* ctx.request.body.refresh_token of a /refresh_token request: absent, or a
\* refresh token the client holds from elsewhere
BodyTokens == {<<>>, <<"rt", 0>>}

\* expires_in (seconds) in the provider's token response
ExpiresInValues == {0, 1}

\* two requests may await the provider at the same time
Slots == {1, 2}

\* the fields of a request awaiting the provider
Idle == [op |-> "idle", sess |-> "", session |-> EmptySession,
         code |-> "", body |-> <<>>, codeVerifier |-> 0, refresh_token |-> <<>>]

NoError == <<"", "">>

\* what the last step did: the request it served (op, sess, the session the
\* request read, its code and body), the provider call it made (call, with
\* the code verifier or refresh token sent), and the answer (status 0 while
\* the request awaits the provider)
Quiet == [op |-> "init", sess |-> "", session |-> EmptySession,
          code |-> "", body |-> <<>>,
          call |-> "none", codeVerifier |-> 0, sent |-> <<>>,
          status |-> 0, token_type |-> "", access_token |-> <<>>,
          refresh_token |-> <<>>, expires_in |-> 0,
          error |-> NoError, location |-> 0, ok |-> FALSE]

VARIABLES
    env,           \* process.env.COZE_PAT
    config,        \* the fallback fields of coze_oauth_config.json
    cookie,        \* per browser session, the session its koa:sess cookie holds
    inflight,      \* the bag of requests awaiting the provider
    nextVerifier,  \* verifiers generated so far
    issued,        \* token responses issued so far
    now,           \* Date.now()
    last           \* the last step's response and provider call

vars == <<env, config, cookie, inflight, nextVerifier, issued, now, last>>

\* the state after app.listen, for a given environment and configuration file
Start(e, c) ==
    /\ env = e
    /\ config = c
    /\ cookie = [s \in Sessions |-> EmptySession]
    /\ inflight = EmptyBag
    /\ nextVerifier = 0
    /\ issued = 0
    /\ now = 0
    /\ last = Quiet

\* the process runs without a fallback token, or with one in the environment
\* and one in the file
Init ==
    \/ Start(<<>>, [websdk_pat |-> <<>>, pat |-> <<>>])
    \/ Start(<<" ", "e", " ">>, [websdk_pat |-> <<"w">>, pat |-> <<>>])

\* the process runs with any combination of fallback settings
InitPat == \E e \in EnvPats, c \in [websdk_pat : WebsdkPats, pat : FilePats] : Start(e, c)

\* the requests awaiting the provider
Pending == BagToSet(inflight)

\* the request awaits the provider
Park(req) ==
    /\ BagCardinality(inflight) < Cardinality(Slots)
    /\ inflight' = inflight (+) SetToBag({req})

\* the request has been answered
Unpark(req) == inflight' = inflight (-) SetToBag({req})

\* a session store that keeps one session for all browsers
CommitShared(s, before, after) ==
    cookie' = IF after = before THEN cookie ELSE [t \in Sessions |-> after]

\* koa-session autoCommit: the cookie is written when the session changed
Commit(s, before, after) ==
    cookie' = IF after = before THEN cookie ELSE [cookie EXCEPT ![s] = after]

\* the provider's next token response
ProviderToken(n, e) ==
    [access_token |-> <<"at", n>>, refresh_token |-> <<"rt", n>>, expires_in |-> e]

\* a handler that answers without mutating the session or calling the provider
Answer(resp) ==
    /\ last' = resp
    /\ UNCHANGED <<env, config, cookie, inflight, nextVerifier, issued, now>>

\* the step of a request: which handler, which browser session, what it read
Served(op, s, session) == [Quiet EXCEPT !.op = op, !.sess = s, !.session = session]

\* the step that answers a request that awaited the provider
Resumed(req) ==
    [Served(req.op, req.sess, req.session) EXCEPT !.code = req.code, !.body = req.body]

\* ---------------------------------------------------------------- /login
\* router.get("/login") up to the await of getPKCEAuthenticationUrl
Login(s) ==
    /\ Park([Idle EXCEPT !.op = "login", !.sess = s, !.session = cookie[s]])
    /\ last' = [Served("login", s, cookie[s]) EXCEPT !.call = "getPKCEAuthenticationUrl"]
    /\ UNCHANGED <<env, config, cookie, nextVerifier, issued, now>>

\* a handler that starts a new session for the login
LoginOkFresh(req) ==
    /\ req.op = "login"
    /\ LET codeVerifier == nextVerifier + 1
       IN /\ nextVerifier' = codeVerifier
          /\ Commit(req.sess, req.session,
                    [EmptySession EXCEPT !.codeVerifier = codeVerifier])
          /\ last' = [Resumed(req) EXCEPT !.status = 302, !.location = codeVerifier]
    /\ Unpark(req)
    /\ UNCHANGED <<env, config, issued, now>>

\* the SDK returned {codeVerifier, url}: the verifier is stored and the
\* browser is redirected to the url, which carries that verifier's challenge
LoginOk(req) ==
    /\ req.op = "login"
    /\ LET codeVerifier == nextVerifier + 1
       IN /\ nextVerifier' = codeVerifier
          /\ Commit(req.sess, req.session,
                    [req.session EXCEPT !.codeVerifier = codeVerifier])
          /\ last' = [Resumed(req) EXCEPT !.status = 302, !.location = codeVerifier]
    /\ Unpark(req)
    /\ UNCHANGED <<env, config, issued, now>>

\* a catch block that sends the browser on to the provider all the same
LoginFailRedirecting(req) ==
    /\ req.op = "login"
    /\ last' = [Resumed(req) EXCEPT !.status = 302]
    /\ Unpark(req)
    /\ UNCHANGED <<env, config, cookie, nextVerifier, issued, now>>

\* the SDK threw: the catch block answers 500
LoginFail(req) ==
    /\ req.op = "login"
    /\ last' = [Resumed(req) EXCEPT !.status = 500,
                  !.error = <<"Failed to generate authorization URL", "provider error">>]
    /\ Unpark(req)
    /\ UNCHANGED <<env, config, cookie, nextVerifier, issued, now>>

\* ------------------------------------------------------------- /callback
\* the two guards in the other order
CallbackCheckVerifierFirst(code, codeVerifier) ==
    IF codeVerifier = 0 THEN "No code verifier found"
    ELSE IF code = "" THEN "No authorization code received"
    ELSE "exchange"

\* the two guards of the handler, in the order of the code
CallbackCheck(code, codeVerifier) ==
    IF code = "" THEN "No authorization code received"
    ELSE IF codeVerifier = 0 THEN "No code verifier found"
    ELSE "exchange"

\* a handler that drops the session's verifier when it refuses the request
CallbackForgetting(s, code) ==
    LET codeVerifier == cookie[s].codeVerifier
        check == CallbackCheck(code, codeVerifier)
        step == [Served("callback", s, cookie[s]) EXCEPT !.code = code]
    IN IF check # "exchange"
       THEN /\ last' = [step EXCEPT !.status = 400,
                                    !.error = <<"Authorization failed", check>>]
            /\ cookie' = [cookie EXCEPT ![s].codeVerifier = 0]
            /\ UNCHANGED <<env, config, inflight, nextVerifier, issued, now>>
       ELSE /\ Park([Idle EXCEPT !.op = "callback", !.sess = s,
                                 !.session = cookie[s], !.code = code,
                                 !.codeVerifier = codeVerifier])
            /\ last' = [step EXCEPT !.call = "getPKCEOAuthToken",
                                    !.codeVerifier = codeVerifier]
            /\ UNCHANGED <<env, config, cookie, nextVerifier, issued, now>>

\* router.get("/callback") up to the await of getPKCEOAuthToken
Callback(s, code) ==
    LET codeVerifier == cookie[s].codeVerifier
        check == CallbackCheck(code, codeVerifier)
        step == [Served("callback", s, cookie[s]) EXCEPT !.code = code]
    IN IF check # "exchange"
       THEN Answer([step EXCEPT !.status = 400,
                                !.error = <<"Authorization failed", check>>])
       ELSE /\ Park([Idle EXCEPT !.op = "callback", !.sess = s,
                                 !.session = cookie[s], !.code = code,
                                 !.codeVerifier = codeVerifier])
            /\ last' = [step EXCEPT !.call = "getPKCEOAuthToken",
                                    !.codeVerifier = codeVerifier]
            /\ UNCHANGED <<env, config, cookie, nextVerifier, issued, now>>

\* a handler that keeps the refresh_token the session already holds
StoreOAuthKeepingRefresh(session, oauthToken, t) ==
    [session EXCEPT !.oauth =
        IF session.oauth # NoOAuth /\ Truthy(session.oauth.refresh_token)
        THEN [OAuthRecord(oauthToken, t) EXCEPT !.refresh_token = session.oauth.refresh_token]
        ELSE OAuthRecord(oauthToken, t)]

\* a handler that keeps the record the session already holds
StoreOAuthIfAbsent(session, oauthToken, t) ==
    IF session.oauth # NoOAuth THEN session
    ELSE [session EXCEPT !.oauth = OAuthRecord(oauthToken, t)]

\* the session a handler commits after a successful exchange
StoreOAuth(session, oauthToken, t) ==
    [session EXCEPT !.oauth = OAuthRecord(oauthToken, t)]

\* the 200 answer of /callback and /refresh_token
TokenAnswer(req, oauthToken) ==
    [Resumed(req) EXCEPT !.status = 200, !.token_type = "pkce",
                         !.access_token = oauthToken.access_token,
                         !.refresh_token = oauthToken.refresh_token,
                         !.expires_in = oauthToken.expires_in]

\* the provider answered the code exchange with a token response
CallbackOk(req, e) ==
    /\ req.op = "callback"
    /\ issued < MaxIssued
    /\ LET oauthToken == ProviderToken(issued + 1, e)
       IN /\ Commit(req.sess, req.session, StoreOAuth(req.session, oauthToken, now))
          /\ last' = TokenAnswer(req, oauthToken)
    /\ issued' = issued + 1
    /\ Unpark(req)
    /\ UNCHANGED <<env, config, nextVerifier, now>>

\* a catch block that passes the provider's failure on as 502
CallbackFailBadGateway(req) ==
    /\ req.op = "callback"
    /\ last' = [Resumed(req) EXCEPT !.status = 502,
                  !.error = <<"Failed to get access token", "provider error">>]
    /\ Unpark(req)
    /\ UNCHANGED <<env, config, cookie, nextVerifier, issued, now>>

\* a catch block that also drops the session
CallbackFailResetting(req) ==
    /\ req.op = "callback"
    /\ last' = [Resumed(req) EXCEPT !.status = 500,
                  !.error = <<"Failed to get access token", "provider error">>]
    /\ cookie' = [cookie EXCEPT ![req.sess] = EmptySession]
    /\ Unpark(req)
    /\ UNCHANGED <<env, config, nextVerifier, issued, now>>

\* the provider rejected the exchange: the catch block answers 500
CallbackFail(req) ==
    /\ req.op = "callback"
    /\ last' = [Resumed(req) EXCEPT !.status = 500,
                  !.error = <<"Failed to get access token", "provider error">>]
    /\ Unpark(req)
    /\ UNCHANGED <<env, config, cookie, nextVerifier, issued, now>>

\* -------------------------------------------------------- /refresh_token
\* the session's refresh_token, else the body's
ResolveRefreshTokenSessionFirst(body, session) ==
    IF session.oauth # NoOAuth /\ Truthy(session.oauth.refresh_token)
    THEN session.oauth.refresh_token
    ELSE body

\* the body's refresh_token, else the session's
ResolveRefreshToken(body, session) ==
    IF ~Truthy(body) /\ session.oauth # NoOAuth /\ Truthy(session.oauth.refresh_token)
    THEN session.oauth.refresh_token
    ELSE body

\* the handler without its guard
RefreshCheckMissing(refresh_token) == "exchange"

\* the guard of the handler
RefreshCheck(refresh_token) ==
    IF ~Truthy(refresh_token) THEN "No refresh token available. Please re-login."
    ELSE "exchange"

\* router.post("/refresh_token") up to the await of refreshOAuthToken
RefreshToken(s, body) ==
    LET refresh_token == ResolveRefreshToken(body, cookie[s])
        check == RefreshCheck(refresh_token)
        step == [Served("refresh_token", s, cookie[s]) EXCEPT !.body = body]
    IN IF check # "exchange"
       THEN Answer([step EXCEPT !.status = 401, !.error = <<"", check>>])
       ELSE /\ Park([Idle EXCEPT !.op = "refresh_token", !.sess = s,
                                 !.session = cookie[s], !.body = body,
                                 !.refresh_token = refresh_token])
            /\ last' = [step EXCEPT !.call = "refreshOAuthToken",
                                    !.sent = refresh_token]
            /\ UNCHANGED <<env, config, cookie, nextVerifier, issued, now>>

\* a handler that stores the refreshed record only over an existing one
RefreshOkAuthenticatedOnly(req, e) ==
    /\ req.op = "refresh_token"
    /\ issued < MaxIssued
    /\ LET oauthToken == ProviderToken(issued + 1, e)
       IN /\ Commit(req.sess, req.session,
                    IF req.session.oauth = NoOAuth THEN req.session
                    ELSE StoreOAuth(req.session, oauthToken, now))
          /\ last' = TokenAnswer(req, oauthToken)
    /\ issued' = issued + 1
    /\ Unpark(req)
    /\ UNCHANGED <<env, config, nextVerifier, now>>

\* the provider answered the refresh with a token response
RefreshOk(req, e) ==
    /\ req.op = "refresh_token"
    /\ issued < MaxIssued
    /\ LET oauthToken == ProviderToken(issued + 1, e)
       IN /\ Commit(req.sess, req.session, StoreOAuth(req.session, oauthToken, now))
          /\ last' = TokenAnswer(req, oauthToken)
    /\ issued' = issued + 1
    /\ Unpark(req)
    /\ UNCHANGED <<env, config, nextVerifier, now>>

\* a catch block that also drops the session's token record
RefreshFailClearing(req) ==
    /\ req.op = "refresh_token"
    /\ last' = [Resumed(req) EXCEPT !.status = 500,
                  !.error = <<"Failed to refresh token", "provider error">>]
    /\ Commit(req.sess, req.session, [req.session EXCEPT !.oauth = NoOAuth])
    /\ Unpark(req)
    /\ UNCHANGED <<env, config, nextVerifier, issued, now>>

\* the provider rejected the refresh: the catch block answers 500
RefreshFail(req) ==
    /\ req.op = "refresh_token"
    /\ last' = [Resumed(req) EXCEPT !.status = 500,
                  !.error = <<"Failed to refresh token", "provider error">>]
    /\ Unpark(req)
    /\ UNCHANGED <<env, config, cookie, nextVerifier, issued, now>>

\* ---------------------------------------------------------------- /token
\* the fallback token tried before the session's token
TokenResponsePatFirst(s, session, e, c) ==
    LET oauth == session.oauth
        pat == ResolvePat(e, c)
        step == Served("token", s, session)
    IN IF Truthy(pat)
       THEN [step EXCEPT !.status = 200, !.token_type = "pat", !.access_token = pat]
       ELSE IF oauth # NoOAuth /\ Truthy(oauth.access_token)
       THEN [step EXCEPT !.status = 200, !.token_type = "pkce",
               !.access_token = oauth.access_token]
       ELSE [step EXCEPT !.status = 401,
               !.error = <<"", "Public PAT not configured. Set env COZE_PAT or websdk_pat in coze_oauth_config.json.">>]

\* the body and status of router.get("/token") for a session
TokenResponse(s, session, e, c) ==
    LET oauth == session.oauth
        pat == ResolvePat(e, c)
        step == Served("token", s, session)
    IN IF oauth # NoOAuth /\ Truthy(oauth.access_token)
       THEN [step EXCEPT !.status = 200,
               !.token_type = IF oauth.token_type # "" THEN oauth.token_type ELSE "pkce",
               !.access_token = oauth.access_token]
       ELSE IF Truthy(pat)
       THEN [step EXCEPT !.status = 200, !.token_type = "pat", !.access_token = pat]
       ELSE [step EXCEPT !.status = 401,
               !.error = <<"", "Public PAT not configured. Set env COZE_PAT or websdk_pat in coze_oauth_config.json.">>]

\* a handler that drops a token record whose expire_at has passed
TokenDroppingExpired(s) ==
    LET session == cookie[s]
        expired == session.oauth # NoOAuth /\ session.oauth.expire_at < now
        kept == IF expired THEN [session EXCEPT !.oauth = NoOAuth] ELSE session
    IN /\ last' = TokenResponse(s, kept, env, config)
       /\ Commit(s, session, kept)
       /\ UNCHANGED <<env, config, inflight, nextVerifier, issued, now>>

\* router.get("/token")
Token(s) == Answer(TokenResponse(s, cookie[s], env, config))

\* --------------------------------------------------------------- /logout
\* a logout that drops the token record and keeps the rest of the session
LogoutKeepingVerifier(s) ==
    /\ cookie' = [cookie EXCEPT ![s].oauth = NoOAuth]
    /\ last' = [Served("logout", s, cookie[s]) EXCEPT !.status = 200, !.ok = TRUE]
    /\ UNCHANGED <<env, config, inflight, nextVerifier, issued, now>>

\* router.post("/logout"): ctx.session = null removes the cookie
Logout(s) ==
    /\ cookie' = [cookie EXCEPT ![s] = EmptySession]
    /\ last' = [Served("logout", s, cookie[s]) EXCEPT !.status = 200, !.ok = TRUE]
    /\ UNCHANGED <<env, config, inflight, nextVerifier, issued, now>>

\* ----------------------------------------------------------------- clock
Tick ==
    /\ now < MaxTicks * TickMs
    /\ now' = now + TickMs
    /\ UNCHANGED <<env, config, cookie, inflight, nextVerifier, issued, last>>

\* the browser session whose requests Spec follows
Browser == {"A"}

Next ==
    \/ \E s \in Browser : Login(s)
    \/ \E req \in Pending : nextVerifier < MaxVerifiers /\ LoginOk(req)
    \/ \E req \in Pending : LoginFail(req)
    \/ \E s \in Browser, code \in Codes : Callback(s, code)
    \/ \E req \in Pending, e \in ExpiresInValues : CallbackOk(req, e)
    \/ \E req \in Pending : CallbackFail(req)
    \/ \E s \in Browser, body \in BodyTokens : RefreshToken(s, body)
    \/ \E req \in Pending, e \in ExpiresInValues : RefreshOk(req, e)
    \/ \E req \in Pending : RefreshFail(req)
    \/ \E s \in Browser : Token(s)
    \/ \E s \in Browser : Logout(s)
    \/ Tick

Spec == Init /\ [][Next]_vars

\* one browser session, one request at a time, under any fallback settings
NextPat ==
    \/ \E s \in Browser, body \in BodyTokens :
          BagCardinality(inflight) = 0 /\ RefreshToken(s, body)
    \/ \E req \in Pending, e \in ExpiresInValues : RefreshOk(req, e)
    \/ \E req \in Pending : RefreshFail(req)
    \/ \E s \in Browser : Token(s)
    \/ \E s \in Browser : Logout(s)

SpecPat == InitPat /\ [][NextPat]_vars

\* the browser session s has no request awaiting the provider
Free(s) == \A req \in Pending : req.sess # s

\* two browser sessions whose requests interleave, each session sending its
\* next provider-bound request when its previous one has been answered
NextIso ==
    \/ \E s \in Sessions : Free(s) /\ Login(s)
    \/ \E req \in Pending : nextVerifier < MaxVerifiers /\ LoginOk(req)
    \/ \E req \in Pending : LoginFail(req)
    \/ \E s \in Sessions, code \in Codes : Free(s) /\ Callback(s, code)
    \/ \E req \in Pending, e \in ExpiresInValues : CallbackOk(req, e)
    \/ \E req \in Pending : CallbackFail(req)
    \/ \E s \in Sessions, body \in BodyTokens : Free(s) /\ RefreshToken(s, body)
    \/ \E req \in Pending, e \in ExpiresInValues : RefreshOk(req, e)
    \/ \E req \in Pending : RefreshFail(req)
    \/ \E s \in Sessions : Token(s)
    \/ \E s \in Sessions : Logout(s)

SpecIso == Init /\ [][NextIso]_vars

\* no request awaits the provider
Quiescent == inflight = EmptyBag

\* one browser session whose requests are handled one after another
NextSeq ==
    \/ \E s \in Browser : Quiescent /\ Login(s)
    \/ \E req \in Pending : nextVerifier < MaxLogins /\ LoginOk(req)
    \/ \E req \in Pending : LoginFail(req)
    \/ \E s \in Browser, code \in Codes : Quiescent /\ Callback(s, code)
    \/ \E req \in Pending, e \in ExpiresInValues : CallbackOk(req, e)
    \/ \E req \in Pending : CallbackFail(req)
    \/ \E s \in Browser, body \in BodyTokens : Quiescent /\ RefreshToken(s, body)
    \/ \E req \in Pending, e \in ExpiresInValues : RefreshOk(req, e)
    \/ \E req \in Pending : RefreshFail(req)
    \/ \E s \in Browser : Quiescent /\ Token(s)
    \/ \E s \in Browser : Quiescent /\ Logout(s)

SpecSeq == Init /\ [][NextSeq]_vars

\* =================================================================
\* Properties
\* =================================================================

\* the session holds a token record with an access_token
HasAccessToken(session) == session.oauth # NoOAuth /\ Truthy(session.oauth.access_token)

\* the non-blank fallback tokens of the environment and of the file
FallbackTokens == {Trim(v) : v \in {env, config.websdk_pat, config.pat}} \ {<<>>}

\* the step serves a request (the clock does not move)
Request == now' = now

\* the step is the entry of a request into the handler op
Entry(op) ==
    /\ Request
    /\ last'.op = op
    /\ BagCardinality(inflight') >= BagCardinality(inflight)

\* the step answers the pending request req
Answers(req) == inflight' = inflight (-) SetToBag({req})

C2_RefreshFailureKeepsRecord ==
    [][\A req \in Pending :
          (req.op = "refresh_token" /\ Answers(req) /\ issued' = issued) =>
             /\ last'.status = 500
             /\ cookie' = cookie
             /\ cookie'[req.sess].oauth = cookie[req.sess].oauth
             /\ TokenResponse(req.sess, cookie'[req.sess], env, config)
                  = TokenResponse(req.sess, cookie[req.sess], env, config)]_vars

\* a refresh failed on a session that holds a token record, which it still holds
C2_Witness ==
    /\ last.op = "refresh_token"
    /\ last.status = 500
    /\ HasAccessToken(last.session)
    /\ cookie[last.sess] = last.session

\* C3: /callback without a code answers 400 "No authorization code
\* received" whatever the session holds; with a code and no verifier in the
\* session it answers 400 "No code verifier found"; neither calls the
\* provider.
C3_CallbackPreconditions ==
    [][Entry("callback") =>
          LET noCall == /\ last'.call = "none"
                        /\ inflight' = inflight
                        /\ cookie' = cookie
          IN /\ last'.code = "" =>
                  /\ last'.status = 400
                  /\ last'.error[2] = "No authorization code received"
                  /\ noCall
             /\ (last'.code # "" /\ cookie[last'.sess].codeVerifier = 0) =>
                  /\ last'.status = 400
                  /\ last'.error[2] = "No code verifier found"
                  /\ noCall]_vars

\* /callback without a code was refused on a session with a pending verifier
C3_Witness ==
    /\ last.op = "callback"
    /\ last.code = ""
    /\ last.session.codeVerifier # 0
    /\ last.status = 400
    /\ last.error[2] = "No authorization code received"

\* C4: /refresh_token without a body token on a session without a refresh
\* token answers 401 "No refresh token available. Please re-login.", calls
\* no provider and leaves the session as it was.
C4_NoRefreshToken ==
    [][(/\ Entry("refresh_token")
        /\ ~Truthy(last'.body)
        /\ ~Truthy(cookie[last'.sess].oauth.refresh_token)) =>
          /\ last'.status = 401
          /\ last'.error[2] = "No refresh token available. Please re-login."
          /\ last'.call = "none"
          /\ inflight' = inflight
          /\ cookie' = cookie]_vars

\* /refresh_token with an empty body was refused on a session that holds nothing
C4_Witness ==
    /\ last.op = "refresh_token"
    /\ last.body = <<>>
    /\ last.session = EmptySession
    /\ last.status = 401

C6_TokenPureRead ==
    [][(Request /\ last'.op = "token") =>
          /\ cookie' = cookie
          /\ inflight' = inflight
          /\ issued' = issued
          /\ last'.call = "none"
          /\ HasAccessToken(cookie[last'.sess]) =>
               /\ last'.status = 200
               /\ last'.access_token = cookie[last'.sess].oauth.access_token]_vars

\* /token answered a session token whose expire_at has passed, and the
\* session still holds it
C6_Witness ==
    /\ last.op = "token"
    /\ HasAccessToken(cookie[last.sess])
    /\ cookie[last.sess].oauth.expire_at < now
    /\ last.status = 200
    /\ last.access_token = cookie[last.sess].oauth.access_token

\* C7: the record stored by a successful /callback or /refresh_token has
\* the expires_in of that provider response and expire_at = the instant of
\* the step + expires_in * 1000.
C7_ExpireAtDerived ==
    [][issued' = issued + 1 =>
          LET oauth == cookie'[last'.sess].oauth
          IN /\ oauth.access_token = last'.access_token
             /\ oauth.expires_in = last'.expires_in
             /\ oauth.expire_at = now + last'.expires_in * 1000]_vars

\* a refresh replaced a record by one with another expire_at, computed from
\* a later instant and a lifetime of one second
C7_Witness ==
    /\ last.op = "refresh_token"
    /\ last.status = 200
    /\ HasAccessToken(last.session)
    /\ last.expires_in = 1
    /\ cookie[last.sess].oauth.access_token = last.access_token
    /\ cookie[last.sess].oauth.expire_at = now + 1000
    /\ now > 0
    /\ cookie[last.sess].oauth.expire_at # last.session.oauth.expire_at

\* C8: after a /callback that attempted the exchange, the session no longer
\* holds the verifier the request presented.
C8_VerifierConsumed ==
    [][\A req \in Pending :
          (req.op = "callback" /\ Answers(req)) =>
             cookie'[req.sess].codeVerifier # req.codeVerifier]_vars

\* C9: the refresh token sent to the provider is the body's when the body
\* supplies one, and the session's only when it supplies none.
C9_RefreshTokenOrder ==
    [][(Request /\ last'.call = "refreshOAuthToken") =>
          /\ Truthy(last'.sent)
          /\ last'.sent = IF Truthy(last'.body)
                          THEN last'.body
                          ELSE cookie[last'.sess].oauth.refresh_token
          /\ \E req \in BagToSet(inflight') :
                /\ req.op = "refresh_token"
                /\ req.refresh_token = last'.sent
                /\ inflight' = inflight (+) SetToBag({req})]_vars

\* the body's refresh token was sent although the session holds another one
C9_Witness ==
    /\ last.call = "refreshOAuthToken"
    /\ Truthy(last.body)
    /\ Truthy(last.session.oauth.refresh_token)
    /\ last.session.oauth.refresh_token # last.body
    /\ last.sent = last.body

\* C10: without a session token, a non-blank fallback token in the
\* environment or in the file makes GET /token answer 200 "pat", with the
\* environment's token when the environment has one.
C10_FallbackResolution ==
    (last.op = "token" /\ ~HasAccessToken(last.session) /\ FallbackTokens # {}) =>
        /\ last.status = 200
        /\ last.token_type = "pat"
        /\ Truthy(Trim(env)) => last.access_token = Trim(env)

\* C11: a /login request is answered 302 exactly when the provider call
\* succeeded, and then the redirect carries the verifier generated by that
\* call and the session's cookie holds that verifier; when the call fails
\* the answer is 500 without a redirect and the cookie is left as it was.
C11_LoginRedirectIffProviderOk ==
    [][\A req \in Pending :
          (req.op = "login" /\ Answers(req)) =>
             LET generated == nextVerifier' = nextVerifier + 1
             IN /\ last'.status = 302 <=> generated
                /\ generated =>
                      /\ last'.location = nextVerifier'
                      /\ cookie'[req.sess].codeVerifier = last'.location
                      /\ cookie'[req.sess].oauth = req.session.oauth
                /\ ~generated =>
                      /\ nextVerifier' = nextVerifier
                      /\ last'.status = 500
                      /\ last'.location = 0
                      /\ last'.error[1] = "Failed to generate authorization URL"
                      /\ cookie' = cookie]_vars

\* the provider call of a /login failed on a session that holds a verifier
\* from an earlier /login, which it still holds
C11_Witness ==
    /\ last.op = "login"
    /\ last.status = 500
    /\ last.location = 0
    /\ last.session.codeVerifier # 0
    /\ cookie[last.sess] = last.session

\* the access tokens session s holds: in its cookie and in the sessions its
\* pending requests read
Held(s) ==
    {ses.oauth.access_token :
        ses \in {cookie[s]} \cup {req.session : req \in {r \in Pending : r.sess = s}}}
      \ {<<>>}

\* C12: under any interleaving of the requests of two sessions, a step of
\* one session leaves the other session's cookie (verifier and token record)
\* as it was; a session's cookie only ever holds a token issued to that
\* session; no token is held by two sessions; and an answer never carries a
\* token another session holds.
C12_SessionsIsolated ==
    [][\A s \in Sessions :
          /\ last'.sess # s => cookie'[s] = cookie[s]
          /\ cookie'[s].oauth.access_token \in
                {<<>>} \cup Held(s) \cup
                (IF issued' = issued + 1 /\ last'.sess = s
                 THEN {<<"at", issued'>>} ELSE {})
          /\ \A t \in Sessions \ {s} :
                /\ Held(s)' \cap Held(t)' = {}
                /\ (last'.sess = s /\ last'.token_type = "pkce") =>
                      last'.access_token \notin Held(t)']_vars

\* session B was answered its own token by GET /token while session A holds
\* another one and has a request awaiting the provider
C12_Witness ==
    /\ last.op = "token"
    /\ last.sess = "B"
    /\ last.token_type = "pkce"
    /\ last.access_token = cookie["B"].oauth.access_token
    /\ HasAccessToken(cookie["A"])
    /\ cookie["A"].oauth.access_token # last.access_token
    /\ \E req \in Pending : req.sess = "A"

\* the record is none, or all its fields are those of one provider response
\* (the n-th) stored at one instant of the clock
Whole(oauth) ==
    \/ oauth = NoOAuth
    \/ LET n == oauth.access_token[2]
           stored == oauth.expire_at - oauth.expires_in * 1000
       IN /\ n \in 1..issued
          /\ oauth.expires_in \in ExpiresInValues
          /\ stored \in {k * TickMs : k \in 0..MaxTicks}
          /\ stored <= now
          /\ oauth = OAuthRecord(ProviderToken(n, oauth.expires_in), stored)

\* C13: a token record is replaced as a whole: after every step, also when
\* the cookie writes of two requests of the session race, the session's
\* record is none, the record it held, the record a pending request of the
\* session read, or the record made of the one provider response of the
\* step; its four fields always come from a single response.
C13_RecordReplacedWhole ==
    [][\A s \in Sessions :
          /\ Whole(cookie[s].oauth)'
          /\ cookie'[s].oauth \in
                {NoOAuth, cookie[s].oauth}
                \cup {req.session.oauth : req \in {r \in Pending : r.sess = s}}
                \cup (IF issued' = issued + 1
                      THEN {OAuthRecord(ProviderToken(issued', last'.expires_in), now)}
                      ELSE {})]_vars

\* a refresh replaced the session's record while another request of the
\* session, which read the replaced record, still awaits the provider
C13_Witness ==
    /\ last.op = "refresh_token"
    /\ last.status = 200
    /\ cookie[last.sess].oauth.access_token = last.access_token
    /\ cookie[last.sess].oauth.refresh_token = last.refresh_token
    /\ \E req \in Pending :
          /\ req.op \in {"refresh_token", "callback"}
          /\ req.sess = last.sess
          /\ HasAccessToken(req.session)
          /\ req.session.oauth = last.session.oauth
          /\ req.session.oauth # cookie[last.sess].oauth

\* the state of a session: Authenticated with a token record, else
\* PendingAuthorization with a verifier, else Anonymous
SessionState(session) ==
    IF HasAccessToken(session) THEN "Authenticated"
    ELSE IF session.codeVerifier # 0 THEN "PendingAuthorization"
    ELSE "Anonymous"

\* a /callback whose exchange fails leaves a PendingAuthorization session
\* PendingAuthorization, and one whose exchange succeeds leaves the session
\* Authenticated
CallbackExchangeTransitions ==
    \A req \in Pending :
       (req.op = "callback" /\ Answers(req)) =>
          /\ issued' = issued =>
                /\ last'.status = 500
                /\ cookie' = cookie
                /\ SessionState(cookie[req.sess]) = "PendingAuthorization" =>
                      SessionState(cookie'[req.sess]) = "PendingAuthorization"
          /\ issued' = issued + 1 =>
                /\ last'.status = 200
                /\ SessionState(cookie'[req.sess]) = "Authenticated"

\* C14: from PendingAuthorization, a /callback without a code moves the
\* session to Anonymous; a /callback whose provider exchange fails leaves it
\* PendingAuthorization; a successful /callback moves it to Authenticated.
C14_CallbackTransitions ==
    [][/\ (/\ Entry("callback")
            /\ last'.code = ""
            /\ SessionState(cookie[last'.sess]) = "PendingAuthorization") =>
               SessionState(cookie'[last'.sess]) = "Anonymous"
       /\ CallbackExchangeTransitions]_vars

\* C14 (amended): from PendingAuthorization, a /callback without a code
\* leaves the session PendingAuthorization with the verifier it held, as does
\* a /callback whose provider exchange fails; a successful /callback moves
\* it to Authenticated.
C14_CallbackTransitionsAmended ==
    [][/\ (/\ Entry("callback")
            /\ last'.code = ""
            /\ SessionState(cookie[last'.sess]) = "PendingAuthorization") =>
               /\ cookie' = cookie
               /\ SessionState(cookie'[last'.sess]) = "PendingAuthorization"
       /\ CallbackExchangeTransitions]_vars

\* a /callback without a code was refused on a PendingAuthorization session,
\* which still holds its verifier
C14_Witness ==
    /\ last.op = "callback"
    /\ last.code = ""
    /\ last.status = 400
    /\ SessionState(last.session) = "PendingAuthorization"
    /\ SessionState(cookie[last.sess]) = "PendingAuthorization"
    /\ cookie[last.sess].codeVerifier = last.session.codeVerifier

\* the statuses each endpoint answers with
Statuses(op) ==
    CASE op = "login" -> {302, 500}
      [] op = "callback" -> {200, 400, 500}
      [] op = "refresh_token" -> {200, 401, 500}
      [] op = "token" -> {200, 401}
      [] op = "logout" -> {200}
      [] OTHER -> {}

\* the provider call of the pending request req fails
ProviderFails(req) == LoginFail(req) \/ CallbackFail(req) \/ RefreshFail(req)

C16_FailedFlowKeepsRecord ==
    [][(/\ Request
        /\ last'.op \in {"login", "callback"}
        /\ last'.status \in {400, 500}) =>
           LET s == last'.sess
               before == TokenResponse(s, cookie[s], env, config)
               after == TokenResponse(s, cookie'[s], env, config)
           IN HasAccessToken(cookie[s]) =>
                    /\ cookie'[s].oauth = cookie[s].oauth
                    /\ before.token_type = "pkce"
                    /\ after.access_token = before.access_token
                    /\ after.access_token = cookie[s].oauth.access_token]_vars

\* the provider failed the exchange of a /callback on a session that holds
\* a token record, which it still holds
C16_Witness ==
    /\ last.op = "callback"
    /\ last.status = 500
    /\ HasAccessToken(last.session)
    /\ cookie[last.sess] = last.session
    /\ TokenResponse(last.sess, cookie[last.sess], env, config).access_token
         = last.session.oauth.access_token

\* C17: when the requests of a session are handled one after another, the
\* record the session holds is the one of the most recent successful
\* exchange: a successful /callback or /refresh_token leaves it in the
\* session, GET /token answers its access_token, and a /refresh_token
\* without a body token sends its refresh_token to the provider.
C17_LatestExchangeWins ==
    LET s == last.sess
        latest == ProviderToken(issued, 0)
    IN /\ \A b \in Browser :
             HasAccessToken(cookie[b]) =>
                /\ cookie[b].oauth.access_token = latest.access_token
                /\ cookie[b].oauth.refresh_token = latest.refresh_token
       /\ (last.op \in {"callback", "refresh_token"} /\ last.status = 200) =>
             /\ last.access_token = latest.access_token
             /\ cookie[s].oauth.access_token = latest.access_token
       /\ (last.op = "token" /\ HasAccessToken(last.session)) =>
             last.access_token = latest.access_token
       /\ (last.call = "refreshOAuthToken" /\ ~Truthy(last.body)) =>
             last.sent = latest.refresh_token

\* GET /token answered the access_token of the second exchange of a session
\* whose first record was replaced by a refresh
C17_Witness ==
    /\ last.op = "token"
    /\ last.status = 200
    /\ last.token_type = "pkce"
    /\ issued = 2
    /\ last.access_token = ProviderToken(2, 0).access_token
    /\ cookie[last.sess].oauth.refresh_token = ProviderToken(2, 0).refresh_token

\* C18: a token record in a session is of token_type "pkce" and is the one
\* the session held, one a pending request of the session read, or the one
\* the step stores after a successful exchange by a /callback or
\* /refresh_token of that session; and a successful /refresh_token stores
\* the new record whatever the session held, so that the session is
\* Authenticated after it.
C18_RecordOnlyFromExchange ==
    [][/\ \A s \in Sessions :
             LET new == cookie'[s].oauth
             IN new # NoOAuth =>
                   /\ new.token_type = "pkce"
                   /\ \/ new = cookie[s].oauth
                      \/ \E req \in Pending : req.sess = s /\ new = req.session.oauth
                      \/ /\ last'.op \in {"callback", "refresh_token"}
                         /\ last'.sess = s
                         /\ last'.status = 200
                         /\ issued' = issued + 1
                         /\ new.access_token = last'.access_token
                         /\ new.refresh_token = last'.refresh_token
       /\ \A req \in Pending :
             (req.op = "refresh_token" /\ Answers(req) /\ issued' = issued + 1) =>
                /\ last'.status = 200
                /\ cookie'[req.sess].oauth.access_token = last'.access_token
                /\ cookie'[req.sess].codeVerifier = req.session.codeVerifier
                /\ SessionState(cookie'[req.sess]) = "Authenticated"]_vars

\* a /refresh_token with a body token succeeded on a session that never
\* logged in and held nothing, and the session is Authenticated
C18_Witness ==
    /\ last.op = "refresh_token"
    /\ last.status = 200
    /\ Truthy(last.body)
    /\ last.session = EmptySession
    /\ nextVerifier = 0
    /\ SessionState(cookie[last.sess]) = "Authenticated"
    /\ cookie[last.sess].oauth.token_type = "pkce"

\* C19: with requests handled one after another, a successful /login only
\* sets the verifier: the session's token record stays as it was, so an
\* Authenticated session then holds a verifier and a record, and GET /token
\* answers the same pkce access_token; the record changes only by a
\* successful /callback, a successful /refresh_token or a /logout; and the
\* verifier a session holds is the one of the most recent successful
\* /login.
C19_LoginOnlySetsVerifier ==
    [][/\ \A req \in Pending :
             (req.op = "login" /\ Answers(req) /\ nextVerifier' = nextVerifier + 1) =>
                LET s == req.sess
                IN /\ cookie'[s] = [cookie[s] EXCEPT !.codeVerifier = nextVerifier']
                   /\ cookie'[s].oauth = cookie[s].oauth
                   /\ HasAccessToken(cookie[s]) =>
                         LET after == TokenResponse(s, cookie'[s], env, config)
                         IN /\ after.status = 200
                            /\ after.token_type = "pkce"
                            /\ after.access_token = cookie[s].oauth.access_token
       /\ \A s \in Sessions :
             /\ cookie'[s].oauth # cookie[s].oauth =>
                   /\ last'.op \in {"callback", "refresh_token", "logout"}
                   /\ last'.sess = s
                   /\ last'.status = 200
             /\ cookie'[s].codeVerifier \in {0, nextVerifier'}]_vars

\* a second /login succeeded on an Authenticated session that held the
\* verifier of the first: the session holds the second verifier and the
\* record it had
C19_Witness ==
    /\ last.op = "login"
    /\ last.status = 302
    /\ HasAccessToken(last.session)
    /\ last.session.codeVerifier = 1
    /\ last.location = 2
    /\ cookie[last.sess] = [last.session EXCEPT !.codeVerifier = 2]
    /\ TokenResponse(last.sess, cookie[last.sess], env, config).access_token
         = last.session.oauth.access_token

====
